---- MODULE Spec2Model ----
(***************************************************************************)
(* Conway's Game of Life on a toroidal grid (src/src/lib.rs): the Universe *)
(* (width, height, row-major cell buffer) with its operations, and the     *)
(* browser driver of main() (frame callback, mousedown, play/pause).       *)
(***************************************************************************)
EXTENDS Integers, Sequences, FiniteSets, TLC

VARIABLES
    universe,        \* the Universe: [width, height, cells]; cells is 1-indexed here
    panicked,        \* a Rust panic has unwound out of an operation
    overflow_checks, \* build profile: u32 overflow panics (debug) or wraps (release)
    op,              \* name of the last operation or handler that ran
    pattern,         \* history: the pattern seeded on the empty grid, or "none"
    seed,            \* history: the cells as the pattern was seeded
    ticks,           \* history: tick() calls since the pattern was seeded
    playing,         \* main: rc5 / rc6, the play-pause flag
    pending,         \* main: frame callbacks requested and not yet run
    canvas,          \* main: the cell colours last painted by draw_cells
    frame_ticks,     \* history: tick() calls made during the latest animation frame
    prev_op,         \* history: the handler that ran before the last one
    steps,           \* history: handlers run since main() returned
    before,          \* history: the universe as the last handler found it
    clicked,         \* history: the cell of the last mousedown
    parity,          \* history: animation frames run so far, modulo 2
    stack,           \* event loop: the closures being run, innermost last
    borrows,         \* RefCell of rc1 / rc2: the closures holding a RefMut
    queue,           \* event loop: input events delivered and not yet handled
    todo             \* event loop: frame callbacks still to run in this frame

engine == <<universe, panicked, overflow_checks, op>>
life   == <<pattern, seed, ticks>>
loop == <<stack, borrows, queue, todo>>
driver == <<playing, pending, canvas, frame_ticks, prev_op, steps,
            before, clicked, parity, loop>>
vars   == <<engine, life, driver>>

(***************************************************************************)
(* Bounds of the exploration.                                              *)
(***************************************************************************)
\* Cell buffers longer than this are not ticked or edited, and a resize is
\* followed only when the buffer it allocates is at most this long.
MaxCells == 9
\* Longest coordinate list handed to set_cells.
MaxCoords == 2
\* Largest width and height on which a block or a blinker is seeded.
MaxLifeDim == 6
\* tick() calls followed after a pattern is seeded.
MaxTicks == 4
\* Width and height of the universe the driver of main() is explored on.
DriverDim == 4
\* Frame callbacks that may be pending at once before a resume is not followed.
MaxPending == 3
\* Handlers of main() followed in one run.
MaxSteps == 6
\* Pixels beyond each edge of the canvas at which click positions are tried.
PixelMargin == 8
\* Closure runs followed when the closures are stepped statement by statement.
MaxRuns == 5
\* Input events that may wait for the running closure to return.
MaxQueue == 2
\* Input events handled in a run whose animation frames are not counted.
MaxFairInputs == 3

\* A dimension large enough for width * height to leave u32: 2^25 * 128 = 2^32.
BigDim == 2 ^ 25

(***************************************************************************)
(* enum Cell                                                               *)
(***************************************************************************)
Dead == 0
Alive == 1

\* Cell::toggle
toggle(cell) == IF cell = Dead THEN Alive ELSE Dead

(***************************************************************************)
(* u32 arithmetic.  TLC's integers are 32-bit signed, so the product is    *)
(* taken on 16-bit halves; operands are below 2^31.                        *)
(***************************************************************************)
\* a * b >= 2^32, decided as b > (2^32 - 1) div a with 2^32 - 1 = 2 * M + 1.
MulOverflows(a, b) ==
    IF a = 0 \/ b = 0 \/ (a < 65536 /\ b < 65536) THEN FALSE
    ELSE LET M == 2147483647
             q == M \div a
             r == M % a
             top == IF r >= a - 1 - r THEN 1 ELSE 0
         IN  IF q >= 1073741823 THEN FALSE   \* a <= 2: a * b < 2^32
             ELSE b > 2 * q + top

\* (a * b) mod 2^32 as its two 16-bit halves
MulHalves(a, b) ==
    LET a0 == a % 65536
        a1 == a \div 65536
        b0 == b % 65536
        b1 == b \div 65536
        x  == a0 * (b0 % 256)
        y  == a0 * (b0 \div 256)
        t  == x + (y % 256) * 256
        carry == (t \div 65536) + (y \div 256)
    IN  [hi |-> (carry + ((a1 * b0) % 65536) + ((a0 * b1) % 65536)) % 65536,
         lo |-> t % 65536]

\* u32::wrapping_mul: (a * b) mod 2^32
WrappingMul(a, b) ==
    IF a < 32768 /\ b < 32768 THEN a * b
    ELSE LET m == MulHalves(a, b) IN m.hi * 65536 + m.lo

(***************************************************************************)
(* struct Universe                                                         *)
(***************************************************************************)
\* The result of one call: the universe as the call leaves it, and whether
\* the call panicked.
Returned(u) == [universe |-> u, panic |-> FALSE]
Panicked(u) == [universe |-> u, panic |-> TRUE]

\* cells[idx] on the Vec: an index past the end panics
InBounds(u, idx) == idx < Len(u.cells)
At(u, idx) == u.cells[idx + 1]

\* get_index with the stride taken from the other dimension
get_index_by_height(u, row, column) == WrappingMul(row, u.height) + column

\* Universe::get_index: (row * self.width + column) as usize
get_index(u, row, column) == WrappingMul(row, u.width) + column

\* the multiplication in get_index panics in a build with overflow checks
get_index_overflows(u, row, column) ==
    overflow_checks /\ MulOverflows(row, u.width)

\* neighbor_indices with the edges clamped instead of wrapped
neighbor_indices_clamped(u, row, column) ==
    LET north == IF row = 0 THEN 0 ELSE row - 1
        south == IF row = u.height - 1 THEN row ELSE row + 1
        west  == IF column = 0 THEN 0 ELSE column - 1
        east  == IF column = u.width - 1 THEN column ELSE column + 1
    IN  << get_index(u, north, west), get_index(u, north, column),
           get_index(u, north, east), get_index(u, row, west),
           get_index(u, row, east),   get_index(u, south, west),
           get_index(u, south, column), get_index(u, south, east) >>

\* Universe::live_neighbor_count: the eight indices it reads, in its order
neighbor_indices(u, row, column) ==
    LET north == IF row = 0 THEN u.height - 1 ELSE row - 1
        south == IF row = u.height - 1 THEN 0 ELSE row + 1
        west  == IF column = 0 THEN u.width - 1 ELSE column - 1
        east  == IF column = u.width - 1 THEN 0 ELSE column + 1
    IN  << get_index(u, north, west), get_index(u, north, column),
           get_index(u, north, east), get_index(u, row, west),
           get_index(u, row, east),   get_index(u, south, west),
           get_index(u, south, column), get_index(u, south, east) >>

RECURSIVE SumCells(_, _, _)
SumCells(u, idxs, k) ==
    IF k > Len(idxs) THEN 0 ELSE At(u, idxs[k]) + SumCells(u, idxs, k + 1)

\* Universe::live_neighbor_count: count += self.cells[..] as u8, eight times
live_neighbor_count(u, row, column) ==
    CHOOSE count \in {SumCells(u, idxs, 1) :
                         idxs \in {neighbor_indices(u, row, column)}} : TRUE

\* one of the eight reads of live_neighbor_count indexes past the buffer
live_neighbor_count_panics(u, row, column) ==
    \E idxs \in {neighbor_indices(u, row, column)} :
        \E k \in 1..8 : ~InBounds(u, idxs[k])

\* the match of tick with rule 2 keeping a live cell only on two neighbours
next_cell_two_only(cell, live_neighbors) ==
    IF cell = Alive /\ live_neighbors < 2 THEN Dead
    ELSE IF cell = Alive /\ live_neighbors = 2 THEN Alive
    ELSE IF cell = Alive /\ live_neighbors > 2 THEN Dead
    ELSE IF cell = Dead /\ live_neighbors = 3 THEN Alive
    ELSE cell

\* the match of Universe::tick
next_cell(cell, live_neighbors) ==
    IF cell = Alive /\ live_neighbors < 2 THEN Dead
    ELSE IF cell = Alive /\ (live_neighbors = 2 \/ live_neighbors = 3) THEN Alive
    ELSE IF cell = Alive /\ live_neighbors > 3 THEN Dead
    ELSE IF cell = Dead /\ live_neighbors = 3 THEN Alive
    ELSE cell

\* tick_loop updating in place: the cell and its neighbours are read from
\* the buffer being written
RECURSIVE tick_loop_in_place(_, _, _, _)
tick_loop_in_place(u, row, col, next) ==
    IF row >= u.height THEN [next |-> next, panic |-> FALSE]
    ELSE IF col >= u.width THEN tick_loop_in_place(u, row + 1, 0, next)
    ELSE LET idx == get_index(u, row, col)
             written == [u EXCEPT !.cells = next]
         IN
         IF \/ get_index_overflows(u, row, col)
            \/ ~InBounds(u, idx)
            \/ live_neighbor_count_panics(u, row, col)
         THEN [next |-> next, panic |-> TRUE]
         ELSE tick_loop_in_place(u, row, col + 1,
                  [next EXCEPT ![idx + 1] =
                      next_cell(At(written, idx),
                                live_neighbor_count(written, row, col))])

\* the loops of Universe::tick from (row, col) on: reads self.cells, writes next
RECURSIVE tick_loop(_, _, _, _)
tick_loop(u, row, col, next) ==
    IF row >= u.height THEN [next |-> next, panic |-> FALSE]
    ELSE IF col >= u.width THEN tick_loop(u, row + 1, 0, next)
    ELSE LET idx == get_index(u, row, col) IN
         IF \/ get_index_overflows(u, row, col)
            \/ ~InBounds(u, idx)
            \/ live_neighbor_count_panics(u, row, col)
         THEN [next |-> next, panic |-> TRUE]
         ELSE tick_loop(u, row, col + 1,
                  [next EXCEPT ![idx + 1] =
                      next_cell(At(u, idx), live_neighbor_count(u, row, col))])

\* Universe::tick.  With width = 0 or height = 0 the loop body runs for no
\* (row, col) and next is the clone.
tick(u) ==
    IF u.width = 0 \/ u.height = 0 THEN Returned(u)
    ELSE CHOOSE done \in
             {IF r.panic THEN Panicked(u)
              ELSE Returned([u EXCEPT !.cells = r.next]) :
                  r \in {tick_loop(u, 0, 0, u.cells)}} : TRUE

\* a seed with i % 3 in place of i % 7
seeded_by_three(width, height) ==
    [width |-> width, height |-> height,
     cells |-> [i \in 1..(width * height) |->
                   IF (i - 1) % 2 = 0 \/ (i - 1) % 3 = 0 THEN Alive ELSE Dead]]

\* the cells Universe::new collects, for given dimensions
seeded(width, height) ==
    [width |-> width, height |-> height,
     cells |-> [i \in 1..(width * height) |->
                   IF (i - 1) % 2 = 0 \/ (i - 1) % 7 = 0 THEN Alive ELSE Dead]]

\* Universe::new
new ==
    LET width == 128
        height == 128
    IN  seeded(width, height)

\* (0..n).map(|_i| Cell::Dead).collect()
AllDead(n) == [i \in 1..n |-> Dead]

\* set_width that keeps the buffer when the width does not change
set_width_keeping(u, width) ==
    LET w == [u EXCEPT !.width = width] IN
    IF overflow_checks /\ MulOverflows(width, u.height) THEN Panicked(w)
    ELSE IF width = u.width THEN Returned(u)
    ELSE Returned([w EXCEPT !.cells = AllDead(WrappingMul(width, u.height))])

\* Universe::set_width: self.width is assigned before the product is taken
set_width(u, width) ==
    LET w == [u EXCEPT !.width = width] IN
    IF overflow_checks /\ MulOverflows(width, u.height) THEN Panicked(w)
    ELSE Returned([w EXCEPT !.cells = AllDead(WrappingMul(width, u.height))])

\* Universe::set_height
set_height(u, height) ==
    LET h == [u EXCEPT !.height = height] IN
    IF overflow_checks /\ MulOverflows(u.width, height) THEN Panicked(h)
    ELSE Returned([h EXCEPT !.cells = AllDead(WrappingMul(u.width, height))])

\* toggle_cell losing the toggle
toggle_cell_dropped(u, row, column) == Returned(u)

\* Universe::toggle_cell
toggle_cell(u, row, column) ==
    LET idx == get_index(u, row, column) IN
    IF get_index_overflows(u, row, column) \/ ~InBounds(u, idx) THEN Panicked(u)
    ELSE Returned([u EXCEPT !.cells[idx + 1] = toggle(At(u, idx))])

\* set_cells flipping each listed cell instead of setting it
RECURSIVE set_cells_toggling(_, _, _)
set_cells_toggling(u, coords, k) ==
    IF k > Len(coords) THEN Returned(u)
    ELSE LET idx == get_index(u, coords[k][1], coords[k][2]) IN
         IF get_index_overflows(u, coords[k][1], coords[k][2]) \/ ~InBounds(u, idx)
         THEN Panicked(u)
         ELSE set_cells_toggling([u EXCEPT !.cells[idx + 1] = toggle(At(u, idx))],
                                 coords, k + 1)

\* Universe::set_cells: the pairs are applied in order; a panic leaves the
\* pairs before it applied
RECURSIVE set_cells_from(_, _, _)
set_cells_from(u, coords, k) ==
    IF k > Len(coords) THEN Returned(u)
    ELSE LET row == coords[k][1]
             col == coords[k][2]
             idx == get_index(u, row, col)
         IN  IF get_index_overflows(u, row, col) \/ ~InBounds(u, idx)
             THEN Panicked(u)
             ELSE set_cells_from([u EXCEPT !.cells[idx + 1] = Alive], coords, k + 1)

set_cells(u, coords) == set_cells_from(u, coords, 1)

(***************************************************************************)
(* The operations as steps of the library's caller.                        *)
(***************************************************************************)
Min(a, b) == IF a < b THEN a ELSE b

\* buffers the exploration ticks and edits
Explored(u) == Len(u.cells) <= MaxCells

\* dimensions handed to set_width / set_height
Dims == (0..MaxCells) \cup {BigDim}

\* coordinates handed to toggle_cell: every in-range one, one row past the
\* grid, and the columns past the right edge: the first one, and those up to
\* a grid width past it
Rows(u) == 0..Min(u.height, MaxCells)
Cols(u) == (0..Min(2 * u.width, MaxCells)) \cup {u.width}

\* coordinate lists handed to set_cells
CoordPool == {<<0, 0>>, <<1, 1>>}
CoordLists == UNION {[1..n -> CoordPool] : n \in 0..MaxCoords}

Apply(r, name) ==
    /\ universe' = r.universe
    /\ panicked' = r.panic
    /\ op' = name
    /\ UNCHANGED overflow_checks

\* Universe::new called again: a fresh universe replaces the one followed
New ==
    /\ ~panicked
    /\ Apply(Returned(new), "new")
    /\ UNCHANGED <<life, driver>>

Tick ==
    /\ ~panicked
    /\ Explored(universe)
    /\ Apply(tick(universe), "tick")
    /\ UNCHANGED <<life, driver>>

ToggleCell(row, column) ==
    /\ ~panicked
    /\ Explored(universe)
    /\ Apply(toggle_cell(universe, row, column), "toggle_cell")
    /\ UNCHANGED <<life, driver>>

SetCells(coords) ==
    /\ ~panicked
    /\ Explored(universe)
    /\ Apply(set_cells(universe, coords), "set_cells")
    /\ UNCHANGED <<life, driver>>

\* the buffer a resize allocates is within the bound (or the resize panics)
AllocExplored(a, b) ==
    \/ overflow_checks /\ MulOverflows(a, b)
    \/ LET m == MulHalves(a, b) IN m.hi = 0 /\ m.lo <= MaxCells

SetWidth(width) ==
    /\ ~panicked
    /\ AllocExplored(width, universe.height)
    /\ Apply(set_width(universe, width), "set_width")
    /\ UNCHANGED <<life, driver>>

SetHeight(height) ==
    /\ ~panicked
    /\ AllocExplored(universe.width, height)
    /\ Apply(set_height(universe, height), "set_height")
    /\ UNCHANGED <<life, driver>>

\* no pattern seeded, no driver running
Idle ==
    /\ pattern = "none" /\ seed = <<>> /\ ticks = 0
    /\ playing = FALSE /\ pending = 0 /\ canvas = <<>>
    /\ frame_ticks = 0 /\ prev_op = "none" /\ steps = 0
    /\ before = <<>> /\ clicked = <<>>
    /\ parity = 0
    /\ stack = <<>> /\ borrows = <<>> /\ queue = <<>> /\ todo = 0

Init ==
    /\ universe = new
    /\ panicked = FALSE
    /\ overflow_checks \in BOOLEAN
    /\ op = "new"
    /\ Idle

Next ==
    \/ New
    \/ Tick
    \/ \E row \in Rows(universe), column \in Cols(universe) : ToggleCell(row, column)
    \/ \E coords \in CoordLists : SetCells(coords)
    \/ \E width \in Dims : SetWidth(width)
    \/ \E height \in Dims : SetHeight(height)

Spec == Init /\ [][Next]_vars

(***************************************************************************)
(* Seeding a still life or an oscillator on an empty grid and ticking it.  *)
(***************************************************************************)
LifeDims == 4..MaxLifeDim
BlinkerDims == 5..MaxLifeDim

AllCellsDead(u) == \A i \in 1..Len(u.cells) : u.cells[i] = Dead

\* the four cells of the 2 x 2 block whose top-left cell is (row, column),
\* wrapping at the edges
Block(u, row, column) ==
    << <<row, column>>, <<row, (column + 1) % u.width>>,
       <<(row + 1) % u.height, column>>,
       <<(row + 1) % u.height, (column + 1) % u.width>> >>

\* three consecutive cells from (row, column) on, along the row or down the
\* column, wrapping at the edge
Blinker(u, row, column, along_row) ==
    IF along_row
    THEN << <<row, column>>, <<row, (column + 1) % u.width>>,
            <<row, (column + 2) % u.width>> >>
    ELSE << <<row, column>>, <<(row + 1) % u.height, column>>,
            <<(row + 2) % u.height, column>> >>

\* set_width / set_height to a dimension on which patterns are seeded
LifeResize ==
    /\ ~panicked
    /\ \/ \E width \in LifeDims : Apply(set_width(universe, width), "set_width")
       \/ \E height \in LifeDims : Apply(set_height(universe, height), "set_height")
    /\ pattern' = "none" /\ seed' = <<>> /\ ticks' = 0
    /\ UNCHANGED driver

\* set_cells of a pattern on the empty grid
Seed(name, coords) ==
    /\ Apply(set_cells(universe, coords), "set_cells")
    /\ pattern' = name
    /\ seed' = universe'.cells
    /\ ticks' = 0
    /\ UNCHANGED driver

SeedBlock ==
    /\ ~panicked /\ pattern = "none"
    /\ universe.width \in LifeDims /\ universe.height \in LifeDims
    /\ AllCellsDead(universe)
    /\ \E row \in 0..(universe.height - 1), column \in 0..(universe.width - 1) :
           Seed("block", Block(universe, row, column))

SeedBlinker ==
    /\ ~panicked /\ pattern = "none"
    /\ universe.width \in BlinkerDims /\ universe.height \in BlinkerDims
    /\ AllCellsDead(universe)
    /\ \E row \in 0..(universe.height - 1), column \in 0..(universe.width - 1),
          along_row \in BOOLEAN :
           Seed("blinker", Blinker(universe, row, column, along_row))

LifeTick ==
    /\ ~panicked /\ pattern # "none"
    /\ ticks < MaxTicks
    /\ Apply(tick(universe), "tick")
    /\ ticks' = ticks + 1
    /\ UNCHANGED <<pattern, seed, driver>>

LifeNext == LifeResize \/ SeedBlock \/ SeedBlinker \/ LifeTick

SpecLife == Init /\ [][LifeNext]_vars

(***************************************************************************)
(* main(): the frame callback, the mousedown handler and the play-pause    *)
(* click handler around one shared universe.  Handlers run one at a time   *)
(* on the browser's event loop.  The universe is seeded as Universe::new   *)
(* seeds it, at DriverDim x DriverDim cells.                               *)
(***************************************************************************)
CELL_SIZE == 5

ALIVE_COLOR == "#000000"
DEAD_COLOR == "#FFFFFF"

\* let universe_width = universe.width; let universe_height = universe.height;
universe_width == DriverDim
universe_height == DriverDim

\* Universe::draw_cells: every cell's square is filled, in the Alive pass or
\* in the Dead pass; the colour of each square, row-major
draw_cells(u) ==
    [i \in 1..(u.width * u.height) |->
        IF At(u, get_index(u, (i - 1) \div u.width, (i - 1) % u.width)) = Alive
        THEN ALIVE_COLOR ELSE DEAD_COLOR]

\* the square draw_cells fills for the cell (row, col): ctx.fill_rect(x, y, w, h)
fill_rect(row, col) ==
    [x |-> col * (CELL_SIZE + 1) + 1,
     y |-> row * (CELL_SIZE + 1) + 1,
     w |-> CELL_SIZE,
     h |-> CELL_SIZE]

\* f64::round(p / d) for integers p and d > 0: halves round away from zero
round_div(p, d) ==
    IF p >= 0 THEN (2 * p + d) \div (2 * d) ELSE 0 - ((2 * (0 - p) + d) \div (2 * d))

\* f64::floor(p / d) for integers p and d > 0
floor_div(p, d) == p \div d

\* f64 as u32: negative values give 0
as_u32(x) == IF x < 0 THEN 0 ELSE x

\* the row and column of a click without the u32::min against the last row
\* and column
mousedown_cell_unclamped(canvas_left, canvas_top) ==
    [row |-> as_u32(round_div(canvas_top, CELL_SIZE + 1)),
     col |-> as_u32(floor_div(canvas_left, CELL_SIZE + 1))]

\* the row and column the mousedown closure computes from the click's
\* position on the canvas
mousedown_cell(canvas_left, canvas_top) ==
    [row |-> Min(as_u32(round_div(canvas_top, CELL_SIZE + 1)), universe_height - 1),
     col |-> Min(as_u32(floor_div(canvas_left, CELL_SIZE + 1)), universe_width - 1)]

\* the frame closure without its request for the next frame
frame_closure_once(st) ==
    IF st.panic THEN st
    ELSE LET r == tick(st.universe) IN
         [universe |-> r.universe,
          canvas   |-> draw_cells(st.universe),
          requests |-> st.requests,
          panic    |-> r.panic]

\* the frame closure, run on st = [universe, canvas, requests, panic]:
\* draw_cells, tick, and request_animation_frame while playing
frame_closure(st) ==
    IF st.panic THEN st
    ELSE CHOOSE left \in
             {[universe |-> r.universe,
               canvas   |-> draw_cells(st.universe),
               requests |-> IF playing /\ ~r.panic THEN st.requests + 1
                            ELSE st.requests,
               panic    |-> r.panic] : r \in {tick(st.universe)}} : TRUE

\* the callbacks registered for one animation frame run one after another
RECURSIVE run_callbacks(_, _)
run_callbacks(k, st) ==
    IF k = 0 THEN st
    ELSE CHOOSE last \in {run_callbacks(k - 1, left) : left \in {frame_closure(st)}} :
             TRUE

\* canvas positions of the clicks followed: inside cell (0, 0), in the lower
\* half of cell (0, 1), left of and below the canvas, and right of and above it
ClickPositions == {<<2, 1>>, <<8, 4>>, <<-3, 40>>, <<40, -3>>}

\* the click position followed while animation frames are not counted
FairClicks == {<<8, 4>>}

\* one more handler runs
Handler(name) ==
    /\ ~panicked
    /\ steps < MaxSteps
    /\ steps' = steps + 1
    /\ op' = name
    /\ prev_op' = op
    /\ before' = universe
    /\ UNCHANGED <<overflow_checks, life, loop>>

\* the browser reaches an animation frame and runs the pending callbacks
RunFrame ==
    /\ pending > 0
    /\ \E st \in {run_callbacks(pending,
                      [universe |-> universe, canvas |-> canvas,
                       requests |-> 0, panic |-> FALSE])} :
           /\ universe' = st.universe
           /\ canvas' = st.canvas
           /\ pending' = st.requests
           /\ panicked' = st.panic
    /\ frame_ticks' = pending
    /\ parity' = 1 - parity
    /\ UNCHANGED <<playing, clicked>>

AnimationFrame ==
    /\ Handler("frame")
    /\ RunFrame

\* the mousedown closure
MouseDown(canvas_left, canvas_top) ==
    /\ Handler("mousedown")
    /\ LET cell == mousedown_cell(canvas_left, canvas_top)
           r == toggle_cell(universe, cell.row, cell.col)
       IN  universe' = r.universe /\ panicked' = r.panic /\ clicked' = cell
    /\ UNCHANGED <<playing, pending, canvas, frame_ticks, parity>>

\* the click closure of the play-pause button
PlayPauseClick ==
    /\ Handler("click")
    /\ IF playing
       THEN playing' = FALSE /\ pending' = pending
       ELSE pending < MaxPending /\ playing' = TRUE /\ pending' = pending + 1
    /\ UNCHANGED <<universe, panicked, canvas, frame_ticks, clicked, parity>>

\* main() has wired the closures and requested the first frame
DriverInit ==
    /\ universe = seeded(DriverDim, DriverDim)
    /\ panicked = FALSE
    /\ overflow_checks \in BOOLEAN
    /\ op = "main"
    /\ pattern = "none" /\ seed = <<>> /\ ticks = 0
    /\ playing = TRUE
    /\ pending = 1
    /\ canvas = <<>>
    /\ frame_ticks = 0
    /\ prev_op = "none"
    /\ steps = 0
    /\ before = universe
    /\ clicked = <<>>
    /\ parity = 0
    /\ stack = <<>> /\ borrows = <<>> /\ queue = <<>> /\ todo = 0

DriverNext ==
    \/ AnimationFrame
    \/ \E p \in ClickPositions : MouseDown(p[1], p[2])
    \/ PlayPauseClick

SpecDriver == DriverInit /\ [][DriverNext]_vars

\* an animation frame, whatever the number of handlers run so far
FairFrame ==
    /\ ~panicked
    /\ RunFrame
    /\ op' = "frame"
    /\ prev_op' = op
    /\ before' = universe
    /\ UNCHANGED <<overflow_checks, life, steps, loop>>

\* an input event, while fewer than MaxFairInputs have been handled
FairMouseDown ==
    /\ steps < MaxFairInputs
    /\ \E p \in FairClicks : MouseDown(p[1], p[2])

FairClick ==
    /\ steps < MaxFairInputs
    /\ PlayPauseClick

FairNext == FairFrame \/ FairMouseDown \/ FairClick

\* the browser keeps delivering animation frames while a callback is pending
SpecFair == DriverInit /\ [][FairNext]_vars /\ WF_vars(FairFrame)

(***************************************************************************)
(* main()'s closures statement by statement.  The browser delivers input   *)
(* events at any time and starts a callback when no callback is running;   *)
(* the callbacks requested for an animation frame run one after another.   *)
(***************************************************************************)
\* RefCell::borrow_mut on the universe's cell (rc1, rc2) by the closure who:
\* panics with BorrowMutError while a borrow is live
borrow_mut(held, who) ==
    IF held # <<>> THEN [borrows |-> held, panic |-> TRUE]
    ELSE [borrows |-> Append(held, who), panic |-> FALSE]

\* the RefMut of the returning closure is dropped
drop_borrow(held, who) ==
    IF held # <<>> /\ held[Len(held)] = who
    THEN SubSeq(held, 1, Len(held) - 1) ELSE held

\* a callback started while another one is still running
dispatchable_reentrant(stk) == TRUE

\* the closures are synchronous FnMut callbacks: the browser starts one only
\* when none is running
dispatchable(stk) == stk = <<>>

\* input events followed: a mousedown in the lower half of cell (0, 1), and
\* a click on the play-pause button
InputEvents == {[closure |-> "mousedown", at |-> <<8, 4>>],
                [closure |-> "click", at |-> <<0, 0>>]}

Top == stack[Len(stack)]
Advance == stack' = [stack EXCEPT ![Len(stack)].pc = @ + 1]
Return == stack' = SubSeq(stack, 1, Len(stack) - 1)
Start(e) == stack' = Append(stack, [closure |-> e.closure, at |-> e.at, pc |-> 1])

\* an input event is delivered while anything may be running
Deliver(e) ==
    /\ ~panicked
    /\ Len(queue) < MaxQueue
    /\ steps + Len(queue) < MaxRuns
    /\ queue' = Append(queue, e)
    /\ UNCHANGED <<engine, life, playing, pending, canvas, frame_ticks,
                   prev_op, parity, steps, before, clicked, stack, borrows, todo>>

\* the browser starts the handler of the oldest delivered event
DispatchInput ==
    /\ ~panicked
    /\ dispatchable(stack) /\ todo = 0
    /\ queue # <<>>
    /\ Start(Head(queue))
    /\ queue' = Tail(queue)
    /\ steps' = steps + 1
    /\ UNCHANGED <<engine, life, playing, pending, canvas, frame_ticks,
                   prev_op, parity, before, clicked, borrows, todo>>

\* an animation frame begins: the callbacks requested so far are its callbacks
BeginFrame ==
    /\ ~panicked
    /\ dispatchable(stack) /\ todo = 0
    /\ pending > 0
    /\ steps < MaxRuns
    /\ todo' = pending
    /\ pending' = 0
    /\ frame_ticks' = 0
    /\ parity' = 1 - parity
    /\ UNCHANGED <<engine, life, playing, canvas, prev_op, steps, before,
                   clicked, stack, borrows, queue>>

\* the browser runs the next callback of the animation frame
RunCallback ==
    /\ ~panicked
    /\ dispatchable(stack) /\ todo > 0
    /\ Start([closure |-> "frame", at |-> <<0, 0>>])
    /\ todo' = todo - 1
    /\ steps' = steps + 1
    /\ UNCHANGED <<engine, life, playing, pending, canvas, frame_ticks,
                   prev_op, parity, before, clicked, borrows, queue>>

\* the frame closure runs its next statement
FrameStep ==
    /\ ~panicked
    /\ stack # <<>> /\ Top.closure = "frame"
    /\ \/ /\ Top.pc = 1     \* let mut universe = rc1.borrow_mut();
          /\ LET b == borrow_mut(borrows, "frame") IN
             borrows' = b.borrows /\ panicked' = b.panic
          /\ Advance
          /\ before' = universe
          /\ UNCHANGED <<universe, canvas, pending, frame_ticks>>
       \/ /\ Top.pc = 2     \* universe.draw_cells(..);
          /\ canvas' = draw_cells(universe)
          /\ Advance
          /\ UNCHANGED <<universe, panicked, borrows, pending, frame_ticks, before>>
       \/ /\ Top.pc = 3     \* universe.tick();
          /\ LET r == tick(universe) IN
             universe' = r.universe /\ panicked' = r.panic
          /\ frame_ticks' = frame_ticks + 1
          /\ Advance
          /\ UNCHANGED <<canvas, borrows, pending, before>>
       \/ /\ Top.pc = 4     \* if playing { request_animation_frame(..) }
          /\ pending' = IF playing THEN pending + 1 ELSE pending
          /\ Advance
          /\ UNCHANGED <<universe, panicked, canvas, borrows, frame_ticks, before>>
       \/ /\ Top.pc = 5     \* the closure returns
          /\ borrows' = drop_borrow(borrows, "frame")
          /\ Return
          /\ UNCHANGED <<universe, panicked, canvas, pending, frame_ticks, before>>
    /\ op' = "frame"
    /\ UNCHANGED <<overflow_checks, life, playing, prev_op, parity, steps, clicked,
                   queue, todo>>

\* the mousedown closure runs its next statement
MouseDownStep ==
    /\ ~panicked
    /\ stack # <<>> /\ Top.closure = "mousedown"
    /\ \/ /\ Top.pc = 1     \* let row = ..; let col = ..;
          /\ clicked' = mousedown_cell(Top.at[1], Top.at[2])
          /\ Advance
          /\ UNCHANGED <<universe, panicked, borrows, before>>
       \/ /\ Top.pc = 2     \* let mut universe = rc2.borrow_mut();
          /\ LET b == borrow_mut(borrows, "mousedown") IN
             borrows' = b.borrows /\ panicked' = b.panic
          /\ Advance
          /\ before' = universe
          /\ UNCHANGED <<universe, clicked>>
       \/ /\ Top.pc = 3     \* universe.toggle_cell(row, col);
          /\ LET r == toggle_cell(universe, clicked.row, clicked.col) IN
             universe' = r.universe /\ panicked' = r.panic
          /\ Advance
          /\ UNCHANGED <<borrows, clicked, before>>
       \/ /\ Top.pc = 4     \* the closure returns
          /\ borrows' = drop_borrow(borrows, "mousedown")
          /\ Return
          /\ UNCHANGED <<universe, panicked, clicked, before>>
    /\ op' = "mousedown"
    /\ UNCHANGED <<overflow_checks, life, playing, pending, canvas,
                   frame_ticks, prev_op, parity, steps, queue, todo>>

\* the click closure of the play-pause button runs
ClickStep ==
    /\ ~panicked
    /\ stack # <<>> /\ Top.closure = "click"
    /\ IF playing
       THEN playing' = FALSE /\ pending' = pending
       ELSE pending < MaxPending /\ playing' = TRUE /\ pending' = pending + 1
    /\ Return
    /\ op' = "click"
    /\ UNCHANGED <<universe, panicked, overflow_checks, life, canvas,
                   frame_ticks, prev_op, parity, steps, before, clicked, borrows,
                   queue, todo>>

LoopNext ==
    \/ \E e \in InputEvents : Deliver(e)
    \/ DispatchInput
    \/ BeginFrame
    \/ RunCallback
    \/ FrameStep
    \/ MouseDownStep
    \/ ClickStep

SpecLoop == DriverInit /\ [][LoopNext]_vars

(***************************************************************************)
(* The grid as the data model describes it, for stating the properties.    *)
(***************************************************************************)
\* cells holds exactly width * height cells (stated by division: the
\* product itself may leave the range of the integers)
LenIsProduct(u) ==
    IF u.width = 0 THEN Len(u.cells) = 0
    ELSE Len(u.cells) % u.width = 0 /\ Len(u.cells) \div u.width = u.height

\* a grid with positive dimensions
Grid(u) == u.width > 0 /\ u.height > 0 /\ LenIsProduct(u)

\* the cell at (row, column), row-major
CellAt(u, row, column) == u.cells[row * u.width + column + 1]

InRange(u, row, column) ==
    row \in 0..(u.height - 1) /\ column \in 0..(u.width - 1)

\* the eight directions
Offsets == {d \in {-1, 0, 1} \X {-1, 0, 1} : d # <<0, 0>>}

\* the number of directions in which the neighbour on the torus is Alive
TorusCount(u, row, column) ==
    Cardinality({d \in Offsets :
        CellAt(u, (row + d[1] + u.height) % u.height,
                  (column + d[2] + u.width) % u.width) = Alive})

\* Conway's rule
Conway(cell, n) ==
    IF (cell = Alive /\ n \in {2, 3}) \/ (cell = Dead /\ n = 3)
    THEN Alive ELSE Dead

Range(seq) == {seq[k] : k \in 1..Len(seq)}

Reverse(seq) == [k \in 1..Len(seq) |-> seq[Len(seq) + 1 - k]]

SameDims(u, v) == u.width = v.width /\ u.height = v.height

\* the grid with the cell at (row, column) flipped
Flipped(u, row, column) ==
    [u EXCEPT !.cells[row * u.width + column + 1] = 1 - @]

\* the next generation of a grid
Generation(u) ==
    [u EXCEPT !.cells = [i \in 1..Len(u.cells) |->
        Conway(u.cells[i],
               TorusCount(u, (i - 1) \div u.width, (i - 1) % u.width))]]

\* the grid n generations on
RECURSIVE Generations(_, _)
Generations(n, u) == IF n = 0 THEN u ELSE Generations(n - 1, Generation(u))

(***************************************************************************)
(* Properties.                                                             *)
(***************************************************************************)
\* C1: one tick() of a grid with positive dimensions returns, keeps the
\* dimensions, and leaves every cell in the state Conway's rule gives for
\* its state and its toroidal live-neighbour count before the tick.
C1_TickIsConwayOfPreviousGeneration ==
    [][(op' = "tick" /\ Grid(universe)) =>
        /\ ~panicked'
        /\ SameDims(universe', universe)
        /\ Len(universe'.cells) = Len(universe.cells)
        /\ \A row \in 0..(universe.height - 1), column \in 0..(universe.width - 1) :
              CellAt(universe', row, column) =
                  Conway(CellAt(universe, row, column),
                         TorusCount(universe, row, column))]_vars

\* a tick of a 3 x 3 grid has left a cell Alive and a cell Dead
C1_Witness ==
    /\ op = "tick" /\ ~panicked
    /\ universe.width = 3 /\ universe.height = 3
    /\ \E i, j \in 1..9 : universe.cells[i] = Alive /\ universe.cells[j] = Dead

\* C2 (as claimed): whenever an operation has returned, the buffer holds
\* exactly width * height cells.
C2_LengthIsWidthTimesHeight == ~panicked => LenIsProduct(universe)

\* C3: on a grid with positive dimensions, live_neighbor_count of every
\* in-range cell reads inside the buffer and is the number of the eight
\* directions whose neighbour on the torus (row - 1, row + 1, column - 1,
\* column + 1 taken modulo the dimensions) is Alive.
C3_NeighbourCountIsToroidal ==
    Grid(universe) =>
        \A row \in 0..(universe.height - 1), column \in 0..(universe.width - 1) :
            /\ ~live_neighbor_count_panics(universe, row, column)
            /\ live_neighbor_count(universe, row, column)
                   = TorusCount(universe, row, column)

\* on a 3 x 3 grid whose only Alive cell is the corner (2, 2), the opposite
\* corner (0, 0) counts it
C3_Witness ==
    /\ ~panicked
    /\ universe.width = 3 /\ universe.height = 3
    /\ universe.cells = <<0, 0, 0, 0, 0, 0, 0, 0, 1>>
    /\ live_neighbor_count(universe, 0, 0) = 1

\* C4: toggle_cell(r, c) with r < height and c < width returns, flips the
\* cell (r, c), leaves every other cell and both dimensions as they were,
\* and a second toggle_cell(r, c) restores the grid.
C4_ToggleFlipsOnlyThatCell ==
    [][\A r \in Rows(universe), c \in Cols(universe) :
        (/\ op' = "toggle_cell"
         /\ Grid(universe) /\ InRange(universe, r, c)
         /\ ToggleCell(r, c)) =>
            /\ ~panicked'
            /\ SameDims(universe', universe)
            /\ Len(universe'.cells) = Len(universe.cells)
            /\ CellAt(universe', r, c) # CellAt(universe, r, c)
            /\ CellAt(universe', r, c) \in {Dead, Alive}
            /\ \A r2 \in 0..(universe.height - 1), c2 \in 0..(universe.width - 1) :
                  <<r2, c2>> # <<r, c>> =>
                      CellAt(universe', r2, c2) = CellAt(universe, r2, c2)
            /\ toggle_cell(universe', r, c) = Returned(universe)]_vars

\* toggle_cell has made (1, 2) the only Alive cell of a grid 3 wide, 2 high
C4_Witness ==
    /\ op = "toggle_cell" /\ ~panicked
    /\ universe.width = 3 /\ universe.height = 2
    /\ universe.cells = <<0, 0, 0, 0, 0, 1>>

\* C5: a set_width(w) that returns leaves width = w, the height as it was
\* and every cell of the buffer Dead (also when w is the old width);
\* set_height(h) likewise leaves height = h and the width as it was.
C5_ResizeResetsToDead ==
    [][/\ \A w \in Dims : op' = "set_width" /\ SetWidth(w) /\ ~panicked' =>
              /\ universe'.width = w
              /\ universe'.height = universe.height
              /\ \A i \in 1..Len(universe'.cells) : universe'.cells[i] = Dead
              /\ ~MulOverflows(w, universe.height) => LenIsProduct(universe')
       /\ \A h \in Dims : op' = "set_height" /\ SetHeight(h) /\ ~panicked' =>
              /\ universe'.height = h
              /\ universe'.width = universe.width
              /\ \A i \in 1..Len(universe'.cells) : universe'.cells[i] = Dead
              /\ ~MulOverflows(universe.width, h) => LenIsProduct(universe')]_vars

\* set_width has returned a 3 x 3 grid
C5_Witness ==
    /\ op = "set_width" /\ ~panicked
    /\ universe.width = 3 /\ universe.height = 3
    /\ Len(universe.cells) = 9

\* C6: set_cells(coords) with every pair in range returns, leaves exactly
\* the listed cells Alive and every other cell as it was; the result is the
\* same for the list reversed and for the list with every pair repeated,
\* and applying the list again changes nothing.
C6_SetCellsSetsExactlyTheListed ==
    [][\A coords \in CoordLists :
        (/\ op' = "set_cells"
         /\ Grid(universe)
         /\ \A k \in 1..Len(coords) : InRange(universe, coords[k][1], coords[k][2])
         /\ SetCells(coords)) =>
            /\ ~panicked'
            /\ SameDims(universe', universe)
            /\ Len(universe'.cells) = Len(universe.cells)
            /\ \A r \in 0..(universe.height - 1), c \in 0..(universe.width - 1) :
                  CellAt(universe', r, c) =
                      IF <<r, c>> \in Range(coords) THEN Alive
                      ELSE CellAt(universe, r, c)
            /\ set_cells(universe, Reverse(coords)) = Returned(universe')
            /\ set_cells(universe, coords \o coords) = Returned(universe')
            /\ set_cells(universe', coords) = Returned(universe')]_vars

\* set_cells([(0,0),(1,1)]) has left exactly those two cells of a 3 x 3 grid Alive
C6_Witness ==
    /\ op = "set_cells" /\ ~panicked
    /\ universe.width = 3 /\ universe.height = 3
    /\ universe.cells = <<1, 0, 0, 0, 1, 0, 0, 0, 0>>

\* C7: a 2 x 2 block seeded anywhere (also across the wrapped edges) on an
\* otherwise Dead grid at least 4 wide and 4 high is the same grid after
\* every number of tick() calls.
C7_BlockIsStill ==
    pattern = "block" => ~panicked /\ universe.cells = seed

\* a block over the four corners of a 4 x 4 grid has been ticked MaxTicks times
C7_Witness ==
    /\ pattern = "block" /\ ticks = MaxTicks /\ op = "tick"
    /\ universe.width = 4 /\ universe.height = 4
    /\ universe.cells[1] = Alive /\ universe.cells[4] = Alive
    /\ universe.cells[13] = Alive /\ universe.cells[16] = Alive

\* C8: three consecutive Alive cells in a row or a column, seeded anywhere
\* (also across the wrapped edge) on an otherwise Dead grid at least 5 wide
\* and 5 high: the grid after one tick() differs from the seeded grid and
\* the grid after two tick() calls equals it.
C8_BlinkerHasPeriodTwo ==
    pattern = "blinker" =>
        /\ ~panicked
        /\ ticks = 1 => universe.cells # seed
        /\ ticks = 2 => universe.cells = seed

\* a blinker across the wrapped edge of row 0 of a 5 x 5 grid has been
\* ticked twice
C8_Witness ==
    /\ pattern = "blinker" /\ ticks = 2 /\ op = "tick"
    /\ universe.width = 5 /\ universe.height = 5
    /\ universe.cells[5] = Alive /\ universe.cells[1] = Alive
    /\ universe.cells[2] = Alive

\* C9: a mousedown between frames flips its cell in the grid as the handler
\* finds it, and the tick() of the frame that follows computes its
\* generation from that flipped grid: the toggle is not lost, not deferred
\* past the tick, and not applied to the grid after the tick.
C9_ToggleIsSeenByTheNextTick ==
    [][/\ op' = "mousedown" =>
              /\ ~panicked'
              /\ universe' = Flipped(universe, clicked'.row, clicked'.col)
       /\ (op = "mousedown" /\ op' = "frame") =>
              /\ ~panicked'
              /\ universe = Flipped(before, clicked.row, clicked.col)
              /\ universe' = Generations(frame_ticks',
                                 Flipped(before, clicked.row, clicked.col))]_vars

\* a frame with one callback has followed a mousedown; the grid is the
\* generation of the toggled grid, which differs from the generation of the
\* grid without the toggle and from that generation toggled afterwards
C9_Witness ==
    /\ op = "frame" /\ prev_op = "mousedown" /\ frame_ticks = 1 /\ ~panicked
    /\ LET untoggled == Flipped(before, clicked.row, clicked.col) IN
       /\ universe = Generation(before)
       /\ universe # Generation(untoggled)
       /\ universe # Flipped(Generation(untoggled), clicked.row, clicked.col)

\* C10 (as claimed): at most one frame callback is pending at any time, and
\* an animation frame advances the grid by exactly one tick().
C10_OneTickPerFrame ==
    /\ pending <= 1
    /\ op = "frame" => frame_ticks = 1

\* C11: whenever new() has returned, the grid is 128 wide and 128 high, has
\* 16384 cells, and the cell at flat index i is Alive exactly when i mod 2 = 0
\* or i mod 7 = 0; every call of new() gives that same grid.
C11_NewIsTheSeededGrid ==
    op = "new" =>
        /\ ~panicked
        /\ universe.width = 128 /\ universe.height = 128
        /\ Len(universe.cells) = 16384
        /\ \A i \in 0..16383 :
              universe.cells[i + 1] =
                  IF i % 2 = 0 \/ i % 7 = 0 THEN Alive ELSE Dead

\* new() has returned; index 7 and index 16380 are Alive, index 1 and the
\* last index 16383 are Dead
C11_Witness ==
    /\ op = "new" /\ ~panicked
    /\ Len(universe.cells) = 16384
    /\ universe.cells[8] = Alive /\ universe.cells[16381] = Alive
    /\ universe.cells[2] = Dead /\ universe.cells[16384] = Dead

\* C12 (as claimed): on every grid with positive dimensions, none of the
\* eight cells live_neighbor_count reads for an in-range (row, column) is the
\* cell (row, column) itself, and no cell is read twice.
C12_NeverCountsSelfNorTwice ==
    Grid(universe) =>
        \A row \in 0..(universe.height - 1), column \in 0..(universe.width - 1) :
            LET idxs == neighbor_indices(universe, row, column) IN
            /\ \A k \in 1..8 : idxs[k] # get_index(universe, row, column)
            /\ \A j, k \in 1..8 : j # k => idxs[j] # idxs[k]

\* the canvas pixel (x, y) lies inside the rectangle rect
InRect(rect, x, y) ==
    /\ rect.x <= x /\ x < rect.x + rect.w
    /\ rect.y <= y /\ y < rect.y + rect.h

\* C13 (as claimed): a mousedown at a canvas pixel inside the square that
\* draw_cells fills for the cell (r, c) calls toggle_cell with exactly (r, c).
C13_ClickHitsThePaintedCell ==
    [][\A p \in ClickPositions :
        \A r \in 0..(universe_height - 1), c \in 0..(universe_width - 1) :
            (/\ op' = "mousedown"
             /\ MouseDown(p[1], p[2])
             /\ InRect(fill_rect(r, c), p[1], p[2])) =>
                clicked' = [row |-> r, col |-> c]]_vars

\* click positions on the canvas and up to PixelMargin pixels beyond its edges
PixelsAcross == (0 - PixelMargin)..(universe_width * (CELL_SIZE + 1) + PixelMargin)
PixelsDown == (0 - PixelMargin)..(universe_height * (CELL_SIZE + 1) + PixelMargin)

\* C14: the grid keeps the width and height main() captured; every mousedown
\* has called toggle_cell with row <= height - 1 and column <= width - 1 and
\* has not faulted; and the row and column computed for every click position
\* on, left of, above, right of and below the canvas are within those limits.
C14_ClickStaysInsideTheGrid ==
    /\ universe.width = universe_width /\ universe.height = universe_height
    /\ op = "mousedown" =>
          /\ ~panicked
          /\ clicked.row \in 0..(universe.height - 1)
          /\ clicked.col \in 0..(universe.width - 1)
    /\ op = "main" =>
          \A x \in PixelsAcross, y \in PixelsDown :
              /\ mousedown_cell(x, y).row \in 0..(universe.height - 1)
              /\ mousedown_cell(x, y).col \in 0..(universe.width - 1)

\* a click left of and below the canvas has toggled the first cell of the
\* last row
C14_Witness ==
    /\ op = "mousedown" /\ ~panicked
    /\ clicked = [row |-> universe_height - 1, col |-> 0]
    /\ mousedown_cell_unclamped(-3, 40).row > universe_height - 1
    /\ universe.cells # before.cells

\* C15: no closure has faulted on borrow_mut; at most one closure is running
\* and at most one RefMut of the universe is live; the frame closure holds it
\* from its borrow_mut through draw_cells and tick to its return, the
\* mousedown closure from its borrow_mut through toggle_cell to its return,
\* and no RefMut is live while no closure runs.
C15_OneMutableBorrowAtATime ==
    /\ ~panicked
    /\ Len(stack) <= 1
    /\ Len(borrows) <= 1
    /\ stack = <<>> => borrows = <<>>
    /\ stack # <<>> =>
          /\ Top.closure = "frame" =>
                borrows = IF Top.pc >= 2 THEN <<"frame">> ELSE <<>>
          /\ Top.closure = "mousedown" =>
                borrows = IF Top.pc >= 3 THEN <<"mousedown">> ELSE <<>>
          /\ Top.closure = "click" => borrows = <<>>

\* a mousedown has been delivered and waits while the frame closure, holding
\* the RefMut, is about to call tick()
C15_Witness ==
    /\ ~panicked
    /\ stack # <<>> /\ Top.closure = "frame" /\ Top.pc = 3
    /\ borrows = <<"frame">>
    /\ queue # <<>> /\ Head(queue).closure = "mousedown"

\* C16 (as claimed): while paused, an animation frame executes at most one
\* tick() (the callback that was pending at the pause) and leaves no frame
\* callback pending, so tick() is not called again before a click resumes.
C16_PausingStopsAfterOneTick ==
    [][(~playing /\ op' = "frame") =>
           /\ frame_ticks' <= 1
           /\ pending' = 0]_vars

\* C17: whenever playing is true at least one frame callback is pending, and
\* with animation frames delivered fairly, from every state in which playing
\* is true a further animation frame runs or playing becomes false.
C17_PlayingNeverStalls ==
    /\ [](playing => pending >= 1 /\ ~panicked)
    /\ (playing /\ parity = 0) ~> (~playing \/ parity = 1)
    /\ (playing /\ parity = 1) ~> (~playing \/ parity = 0)

\* a click has resumed play when no frame callback was pending (the frame
\* before it ran the last pending callback while paused) and requested one
C17_Witness ==
    /\ playing /\ op = "click" /\ prev_op = "frame"
    /\ pending = 1 /\ frame_ticks = 1 /\ steps >= 2

\* C18 (as claimed): whenever the simulation is paused and no frame callback
\* is pending, the colours last painted by draw_cells are those of the
\* grid's current cells.
C18_PausedCanvasShowsTheGrid ==
    (~playing /\ pending = 0) => canvas = draw_cells(universe)

\* C19 (as claimed): tick() on every grid the operations can leave, also one
\* with width or height 0, returns without fault, keeps the dimensions and
\* the number of cells, and leaves each cell the value written for it in the
\* one pass over the pre-tick grid.
C19_TickReturnsAfterOnePass ==
    [][op' = "tick" =>
        /\ ~panicked'
        /\ SameDims(universe', universe)
        /\ Len(universe'.cells) = Len(universe.cells)
        /\ Grid(universe) => universe' = Generation(universe)]_vars


\* row * width + column < width * height, stated without forming the product
FlatInGrid(u, row, column) ==
    u.width > 0 /\ row + (column \div u.width) < u.height

\* the number of leading pairs of coords whose flat index is inside the grid
FlatPrefix(u, coords) ==
    CHOOSE n \in 0..Len(coords) :
        /\ \A k \in 1..n : FlatInGrid(u, coords[k][1], coords[k][2])
        /\ n < Len(coords) =>
               ~FlatInGrid(u, coords[n + 1][1], coords[n + 1][2])

\* the buffer with the flat indices of the first n pairs of coords Alive
AliveAtFlat(u, coords, n) ==
    [i \in 1..Len(u.cells) |->
        IF \E k \in 1..n : coords[k][1] * u.width + coords[k][2] + 1 = i
        THEN Alive ELSE u.cells[i]]

\* C20: toggle_cell(row, column) with column >= width and
\* row * width + column < width * height returns and flips exactly the
\* in-range cell (row + column div width, column mod width); a set_cells
\* with such a pair returns when every pair's flat index is inside the grid,
\* faults otherwise, and either way leaves Alive exactly the flat indices of
\* the pairs before the first one outside the grid.
C20_OutOfRangeColumnAliases ==
    [][/\ \A r \in Rows(universe), c \in Cols(universe) :
            (/\ op' = "toggle_cell"
             /\ c >= universe.width
             /\ FlatInGrid(universe, r, c)
             /\ ToggleCell(r, c)) =>
                /\ ~panicked'
                /\ InRange(universe, r + (c \div universe.width), c % universe.width)
                /\ universe' = Flipped(universe, r + (c \div universe.width),
                                                 c % universe.width)
       /\ \A coords \in CoordLists :
            (/\ op' = "set_cells"
             /\ \E k \in 1..Len(coords) : coords[k][2] >= universe.width
             /\ SetCells(coords)) =>
                /\ panicked' <=> FlatPrefix(universe, coords) < Len(coords)
                /\ SameDims(universe', universe)
                /\ universe'.cells =
                       AliveAtFlat(universe, coords, FlatPrefix(universe, coords))]_vars

=============================================================================
